---------------------------- MODULE Spec2Model ----------------------------
(***************************************************************************)
(* A model of DevTools/file_manipulation.py: create_cfg, read_cfg, backup  *)
(* and check_hash, each acting on a file system.                           *)
(*                                                                         *)
(* Text is a sequence of one-character strings, so that formatting and     *)
(* parsing are computed character by character.                            *)
(***************************************************************************)
EXTENDS Integers, Sequences, FiniteSets, TLC

VARIABLES
    cfg_dict,   \* the dictionary the caller passes to create_cfg
    cfgFile,    \* the configuration file on disk: [exists, data]
    cfgWritten, \* whether create_cfg has written the file
    cfgReads,   \* the outcomes of the read_cfg calls since the file last changed
    hashFiles,  \* the files check_hash is called on: path -> [readable, data]
    hashCall,   \* the last check_hash call: its arguments and its result
    bkArgs,     \* backup's arguments, and the clock's time at the call
    bkEnv,      \* the source file and the destination directory at the call
    bkFs,       \* the same, and the destination's files, as the call changes them
    bk          \* backup's locals, its position and its outcome

cfgVars == <<cfg_dict, cfgFile, cfgWritten, cfgReads>>
hashVars == <<hashFiles, hashCall>>

bkVars == <<bkArgs, bkEnv, bkFs, bk>>

vars == <<cfg_dict, cfgFile, cfgWritten, cfgReads, hashFiles, hashCall,
          bkArgs, bkEnv, bkFs, bk>>

----------------------------------------------------------------------------
(* Text helpers: the str methods the code and configparser use.            *)

NL == "\n"
CR == "\r"

\* str.isspace for the characters of the model
IsSpace(c) == c \in {" ", "\t", NL, CR}

\* str.lower, one character
LowerChar(c) ==
    CASE c = "A" -> "a"
      [] c = "B" -> "b"
      [] c = "D" -> "d"
      [] c = "E" -> "e"
      [] c = "F" -> "f"
      [] c = "L" -> "l"
      [] c = "T" -> "t"
      [] c = "U" -> "u"
      [] c = "X" -> "x"
      [] OTHER -> c

\* str.lower
Lower(s) == [i \in 1..Len(s) |-> LowerChar(s[i])]

RECURSIVE LStrip(_)
\* str.lstrip
LStrip(s) ==
    IF s = <<>> THEN <<>>
    ELSE IF IsSpace(s[1]) THEN LStrip(Tail(s)) ELSE s

RECURSIVE RStrip(_)
\* str.rstrip
RStrip(s) ==
    IF s = <<>> THEN <<>>
    ELSE IF IsSpace(s[Len(s)]) THEN RStrip(SubSeq(s, 1, Len(s) - 1)) ELSE s

\* str.strip
Strip(s) == LStrip(RStrip(s))

\* the indices of s that hold a character of cs
Positions(s, cs) == {i \in 1..Len(s) : s[i] \in cs}

Min(S) == CHOOSE x \in S : \A y \in S : x <= y
Max(S) == CHOOSE x \in S : \A y \in S : x >= y

RECURSIVE Concat(_)
\* ''.join(parts)
Concat(parts) ==
    IF parts = <<>> THEN <<>> ELSE Head(parts) \o Concat(Tail(parts))

RECURSIVE JoinLines(_)
\* '\n'.join(parts)
JoinLines(parts) ==
    IF parts = <<>> THEN <<>>
    ELSE IF Len(parts) = 1 THEN parts[1]
    ELSE parts[1] \o <<NL>> \o JoinLines(Tail(parts))

----------------------------------------------------------------------------
(* create_cfg: the text written for a cfg_dict.                            *)
(* A cfg_dict is a sequence of [name, options], options a sequence of      *)
(* [name, value], in the dictionary's iteration order; keys are unique.    *)

\* file.write(f'{option}={value}\n') for each option of a section
WriteOptions(options) ==
    Concat([i \in 1..Len(options) |->
              options[i].name \o <<"=">> \o options[i].value \o <<NL>>])

\* a writer whose header line lacks its line end: file.write(f'\n[{section}]')
WriteSectionNoLineEnd(section) ==
    <<NL, "[">> \o section.name \o <<"]">> \o WriteOptions(section.options)

\* file.write(f'\n[{section}]\n') and then the section's options
WriteSection(section) ==
    <<NL, "[">> \o section.name \o <<"]", NL>> \o WriteOptions(section.options)

\* the whole text create_cfg writes
Serialize(dict) ==
    Concat([i \in 1..Len(dict) |-> WriteSection(dict[i])])

----------------------------------------------------------------------------
(* read_cfg: ConfigParser().read(file), as configparser._read parses with  *)
(* the defaults the code leaves in place: delimiters '=' and ':', comment  *)
(* prefixes '#' and ';', no inline comments, strict, empty lines in        *)
(* values, default section DEFAULT, basic interpolation.                   *)

DEFAULTSECT == <<"D", "E", "F", "A", "U", "L", "T">>
Delimiters == {"=", ":"}
CommentPrefixes == {"#", ";"}
MAX_INTERPOLATION_DEPTH == 10

\* open(file) in text mode: '\r\n' and '\r' are read as '\n'
TranslateNewlines(s) ==
    LET marked == [i \in 1..Len(s) |->
                     IF s[i] = CR THEN NL
                     ELSE IF s[i] = NL /\ i > 1 /\ s[i - 1] = CR THEN "\r\n"
                     ELSE s[i]]
    IN  SelectSeq(marked, LAMBDA c : c # "\r\n")

RECURSIVE SplitLines(_)
\* the lines a text file iterates over, without their line ends
SplitLines(s) ==
    IF s = <<>> THEN <<>>
    ELSE LET nls == Positions(s, {NL})
         IN  IF nls = {} THEN <<s>>
             ELSE LET k == Min(nls)
                  IN  <<SubSeq(s, 1, k - 1)>> \o SplitLines(SubSeq(s, k + 1, Len(s)))

\* a map with key k set to v
Put(map, k, v) ==
    [x \in (DOMAIN map) \cup {k} |-> IF x = k THEN v ELSE map[x]]

EmptyMap == [x \in {} |-> <<>>]

\* _read's local state before the first line
ParserInit ==
    [sections |-> EmptyMap, defaults |-> EmptyMap,
     cursect |-> <<"none">>, sectname |-> <<>>,
     optset |-> FALSE, optname |-> <<>>,
     indent_level |-> 0, elements_added |-> {},
     e |-> FALSE, raised |-> "none"]

\* the options of the section the parser is in
CurOptions(st) ==
    IF st.cursect[1] = "defaults" THEN st.defaults ELSE st.sections[st.cursect[2]]

\* the parser state with the current section's options replaced
WithCurOptions(st, opts) ==
    IF st.cursect[1] = "defaults"
    THEN [st EXCEPT !.defaults = opts]
    ELSE [st EXCEPT !.sections = Put(st.sections, st.cursect[2], opts)]

\* cursect[optname].append(text)
AppendToValue(st, text) ==
    LET opts == CurOptions(st)
    IN  WithCurOptions(st, Put(opts, st.optname, Append(opts[st.optname], text)))

\* "cursect is not None and optname": an option is open for continuation
OptionOpen(st) ==
    st.cursect[1] # "none" /\ st.optset /\ st.optname # <<>>

\* SECTCRE.match(value): '[' header ']' with a greedy, non-empty header
SectMatches(value) ==
    /\ Len(value) >= 3
    /\ value[1] = "["
    /\ \E j \in 3..Len(value) : value[j] = "]"

SectHeader(value) ==
    SubSeq(value, 2, Max({j \in 3..Len(value) : value[j] = "]"}) - 1)

\* _optcre.match(value): the option ends before the first delimiter
OptMatches(value) == Positions(value, Delimiters) # {}

\* a section header line
ReadSection(st, value) ==
    LET sectname == SectHeader(value)
    IN  IF sectname \in DOMAIN st.sections
        THEN IF <<"s", sectname>> \in st.elements_added
             THEN [st EXCEPT !.raised = "DuplicateSectionError"]
             ELSE [st EXCEPT !.cursect = <<"sect", sectname>>,
                             !.sectname = sectname,
                             !.elements_added = @ \cup {<<"s", sectname>>},
                             !.optset = FALSE, !.optname = <<>>]
        ELSE IF sectname = DEFAULTSECT
        THEN [st EXCEPT !.cursect = <<"defaults">>,
                        !.sectname = sectname,
                        !.optset = FALSE, !.optname = <<>>]
        ELSE [st EXCEPT !.sections = Put(@, sectname, EmptyMap),
                        !.cursect = <<"sect", sectname>>,
                        !.sectname = sectname,
                        !.elements_added = @ \cup {<<"s", sectname>>},
                        !.optset = FALSE, !.optname = <<>>]

\* optionxform with the option's case kept: a reader that does not lowercase
OptionXFormKeepCase(name) == name

\* ConfigParser.optionxform: option names are lowercased
OptionXForm(name) == Lower(name)

\* an option line: name, delimiter, value
ReadOption(st, value) ==
    LET d       == Min(Positions(value, Delimiters))
        rawname == SubSeq(value, 1, d - 1)
        optname == OptionXForm(RStrip(rawname))
        optval  == Strip(SubSeq(value, d + 1, Len(value)))
        st1     == [st EXCEPT !.e = @ \/ (RStrip(rawname) = <<>>),
                              !.optset = TRUE, !.optname = optname]
    IN  IF <<"o", st.sectname, optname>> \in st.elements_added
        THEN [st1 EXCEPT !.raised = "DuplicateOptionError"]
        ELSE WithCurOptions(
               [st1 EXCEPT !.elements_added = @ \cup {<<"o", st.sectname, optname>>}],
               Put(CurOptions(st1), optname, <<optval>>))

\* one iteration of _read's loop over the lines
ReadLine(st, line) ==
    LET stripped  == Strip(line)
        isComment == stripped # <<>> /\ stripped[1] \in CommentPrefixes
        value     == IF isComment THEN <<>> ELSE stripped
        cur_indent_level == Len(line) - Len(LStrip(line))
    IN  IF value = <<>>
        THEN IF ~isComment /\ OptionOpen(st) THEN AppendToValue(st, <<>>) ELSE st
        ELSE IF OptionOpen(st) /\ cur_indent_level > st.indent_level
        THEN AppendToValue(st, value)
        ELSE LET st1 == [st EXCEPT !.indent_level = cur_indent_level]
             IN  IF SectMatches(value) THEN ReadSection(st1, value)
                 ELSE IF st1.cursect[1] = "none"
                 THEN [st1 EXCEPT !.raised = "MissingSectionHeaderError"]
                 ELSE IF OptMatches(value) THEN ReadOption(st1, value)
                 ELSE [st1 EXCEPT !.e = TRUE]

RECURSIVE ReadLines(_, _)
\* _read's loop: it ends at the first exception raised
ReadLines(st, lines) ==
    IF lines = <<>> \/ st.raised # "none" THEN st
    ELSE ReadLines(ReadLine(st, Head(lines)), Tail(lines))

\* _join_multiline_values, for one section's options
JoinValues(opts) ==
    [o \in DOMAIN opts |-> RStrip(JoinLines(opts[o]))]

\* ConfigParser.read of a file's text: [raised, sections, defaults]
Parse(data) ==
    LET st == ReadLines(ParserInit, SplitLines(TranslateNewlines(data)))
    IN  IF st.raised # "none"
        THEN [raised |-> st.raised, sections |-> EmptyMap, defaults |-> EmptyMap]
        ELSE IF st.e
        THEN [raised |-> "ParsingError", sections |-> EmptyMap, defaults |-> EmptyMap]
        ELSE [raised |-> "none",
              sections |-> [s \in DOMAIN st.sections |-> JoinValues(st.sections[s])],
              defaults |-> JoinValues(st.defaults)]

\* ChainMap(section, defaults): what get(section, option) looks options up in
Unify(parsed, section) ==
    [o \in (DOMAIN parsed.sections[section]) \cup (DOMAIN parsed.defaults) |->
        IF o \in DOMAIN parsed.sections[section]
        THEN parsed.sections[section][o]
        ELSE parsed.defaults[o]]

RECURSIVE InterpolateSome(_, _, _)
\* BasicInterpolation._interpolate_some: [raised, text]
InterpolateSome(rest, map, depth) ==
    IF depth > MAX_INTERPOLATION_DEPTH
    THEN [raised |-> "InterpolationDepthError", text |-> <<>>]
    ELSE LET ps == Positions(rest, {"%"})
    IN  IF ps = {} THEN [raised |-> "none", text |-> rest]
        ELSE LET p     == Min(ps)
                 before == SubSeq(rest, 1, p - 1)
                 c     == IF p < Len(rest) THEN rest[p + 1] ELSE ""
             IN  IF c = "%"
                 THEN LET r == InterpolateSome(SubSeq(rest, p + 2, Len(rest)), map, depth)
                      IN  [r EXCEPT !.text = before \o <<"%">> \o @]
                 ELSE IF c = "("
                 THEN LET closes == {k \in (p + 3)..(Len(rest) - 1) :
                                        rest[k] = ")" /\ rest[k + 1] = "s"
                                        /\ \A m \in (p + 2)..(k - 1) : rest[m] # ")"}
                      IN  IF closes = {}
                          THEN [raised |-> "InterpolationSyntaxError", text |-> <<>>]
                          ELSE LET k   == Min(closes)
                                   var == OptionXForm(SubSeq(rest, p + 2, k - 1))
                               IN  IF var \notin DOMAIN map
                                   THEN [raised |-> "InterpolationMissingOptionError",
                                         text |-> <<>>]
                                   ELSE LET v == IF Positions(map[var], {"%"}) # {}
                                                 THEN InterpolateSome(map[var], map, depth + 1)
                                                 ELSE [raised |-> "none", text |-> map[var]]
                                            r == InterpolateSome(
                                                   SubSeq(rest, k + 2, Len(rest)), map, depth)
                                        IN  IF v.raised # "none" THEN v
                                            ELSE [r EXCEPT !.text = before \o v.text \o @]
                 ELSE [raised |-> "InterpolationSyntaxError", text |-> <<>>]

\* config.get(section, option) for every option of config.options(section)
GetOptions(parsed, section) ==
    LET map == Unify(parsed, section)
    IN  [o \in DOMAIN map |-> InterpolateSome(map[o], map, 1)]

\* the body of read_cfg on a file's text: [raised, doc], doc the returned
\* sections_dict as a map section -> option -> value
ReadCfgText(data) ==
    LET parsed == Parse(data)
        got    == [s \in DOMAIN parsed.sections |-> GetOptions(parsed, s)]
        failed == {<<s, o>> \in UNION {{<<s, o>> : o \in DOMAIN got[s]} : s \in DOMAIN got} :
                      got[s][o].raised # "none"}
    IN  IF parsed.raised # "none"
        THEN [raised |-> parsed.raised, doc |-> EmptyMap]
        ELSE IF failed # {}
        THEN [raised |-> "InterpolationError", doc |-> EmptyMap]
        ELSE [raised |-> "none",
              doc |-> [s \in DOMAIN got |-> [o \in DOMAIN got[s] |-> got[s][o].text]]]

\* the cfg_dict as the map it is: section -> option -> value
AsMap(dict) ==
    [s \in {dict[i].name : i \in 1..Len(dict)} |->
        LET sec == dict[CHOOSE i \in 1..Len(dict) : dict[i].name = s]
        IN  [o \in {sec.options[j].name : j \in 1..Len(sec.options)} |->
                sec.options[CHOOSE j \in 1..Len(sec.options) :
                               sec.options[j].name = o].value]]

----------------------------------------------------------------------------
(* The configuration file and the calls on it.  One path is modelled; it   *)
(* is writable, so open(file, 'w') succeeds.                               *)

MaxOptions == 2
MaxReads == 2

\* the section names of a dictionary, in its iteration order
SectionLists ==
    {<<>>, << <<"s">> >>, << <<"s">>, <<"t">> >>, <<DEFAULTSECT>>,
     <<DEFAULTSECT, <<"s">> >>, << <<"s">>, DEFAULTSECT>>}

\* the options a dictionary may hold: each a name and a value
Entries ==
    {[name |-> <<"a">>, value |-> <<"x">>],
     [name |-> <<"b">>, value |-> <<>>],
     [name |-> <<"a">>, value |-> <<"x", "=", "y">>],
     [name |-> <<"a">>, value |-> <<"x", NL, "y">>],
     [name |-> <<"a">>, value |-> <<"x", CR, "y">>],
     [name |-> <<"a">>, value |-> <<" ", "x">>],
     [name |-> <<"a">>, value |-> <<"%">>],
     [name |-> <<"A">>, value |-> <<"X">>],
     [name |-> <<" ", "a">>, value |-> <<"x">>],
     [name |-> <<"a", ":", "b">>, value |-> <<"x">>],
     [name |-> <<"#", "a">>, value |-> <<"x">>],
     [name |-> <<"[", "a", "]">>, value |-> <<"x">>],
     [name |-> <<>>, value |-> <<"x">>]}

RECURSIVE OptionLists(_, _)
\* the option lists of at most n options drawn from entries, names unique
OptionLists(n, entries) ==
    {<<>>} \cup
    (IF n = 0 THEN {}
     ELSE UNION {{<<e>> \o rest :
                     rest \in OptionLists(n - 1, {f \in entries : f.name # e.name})} :
                 e \in entries})

RECURSIVE CfgDictsOf(_, _)
\* the dictionaries with sections named names, in order, and at most nopt
\* options in all
CfgDictsOf(names, nopt) ==
    IF names = <<>> THEN {<<>>}
    ELSE LET rests == [k \in 0..nopt |-> CfgDictsOf(Tail(names), k)]
         IN  UNION {{<<[name |-> Head(names), options |-> ol]>> \o rest :
                        rest \in rests[nopt - Len(ol)]} :
                    ol \in OptionLists(nopt, Entries)}

\* the dictionaries create_cfg is called with
CfgDicts == UNION {CfgDictsOf(names, MaxOptions) : names \in SectionLists}

\* files found on disk before any call: none, or one another program wrote
PreexistingFiles ==
    {[exists |-> FALSE, data |-> <<>>],
     [exists |-> TRUE, data |-> <<"a", "=", "x", NL>>],
     [exists |-> TRUE, data |-> <<"[", "s", "]", NL, "A", " ", "=", " ", "x", NL>>]}

\* no configuration call is made
CfgIdle ==
    /\ cfg_dict = <<>>
    /\ cfgFile = [exists |-> FALSE, data |-> <<>>]
    /\ cfgWritten = FALSE
    /\ cfgReads = <<>>

CfgInit ==
    /\ cfg_dict \in CfgDicts
    /\ cfgFile \in PreexistingFiles
    /\ cfgWritten = FALSE
    /\ cfgReads = <<>>

\* create_cfg(file, cfg_dict): the file is truncated and rewritten
create_cfg ==
    /\ cfgFile' = [exists |-> TRUE, data |-> Serialize(cfg_dict)]
    /\ cfgWritten' = TRUE
    /\ cfgReads' = <<>>
    /\ UNCHANGED <<cfg_dict, hashVars, bkVars>>

\* read_cfg(file) with a reader that opens the file itself and so raises
\* when it is missing
read_cfg_strict ==
    /\ Len(cfgReads) < MaxReads
    /\ LET r == IF cfgFile.exists THEN ReadCfgText(cfgFile.data)
                ELSE [raised |-> "FileNotFoundError", doc |-> EmptyMap]
       IN  cfgReads' = Append(cfgReads, [missing |-> ~cfgFile.exists,
                                         raised |-> r.raised, doc |-> r.doc])
    /\ UNCHANGED <<cfg_dict, cfgFile, cfgWritten, hashVars, bkVars>>

\* read_cfg(file): config.read skips a file it cannot open
read_cfg ==
    /\ Len(cfgReads) < MaxReads
    /\ LET r == IF cfgFile.exists THEN ReadCfgText(cfgFile.data)
                ELSE [raised |-> "none", doc |-> EmptyMap]
       IN  cfgReads' = Append(cfgReads, [missing |-> ~cfgFile.exists,
                                         raised |-> r.raised, doc |-> r.doc])
    /\ UNCHANGED <<cfg_dict, cfgFile, cfgWritten, hashVars, bkVars>>

CfgNext ==
    \/ create_cfg
    \/ read_cfg


----------------------------------------------------------------------------
(* Properties of create_cfg and read_cfg.                                  *)

\* every option of a dictionary satisfies P(name, value)
AllOptions(dict, P(_, _)) ==
    \A i \in 1..Len(dict) : \A j \in 1..Len(dict[i].options) :
        P(dict[i].options[j].name, dict[i].options[j].value)

RECURSIVE CountOptions(_)
\* the number of options of a dictionary, over all its sections
CountOptions(dict) ==
    IF dict = <<>> THEN 0
    ELSE Len(Head(dict).options) + CountOptions(Tail(dict))

HasLineBreak(s) == Positions(s, {NL, CR}) # {}

\* the documents the round-trip sentence speaks of: option names lowercase,
\* values without '=' and without a newline
StatedDocument(dict) ==
    AllOptions(dict, LAMBDA n, v : Lower(n) = n /\ Positions(v, {"=", NL}) = {})

\* an option name the reader takes as it is written, but for its case
PlainName(n) ==
    /\ n # <<>>
    /\ Strip(n) = n
    /\ Positions(n, {"=", ":", NL, CR}) = {}
    /\ n[1] \notin {"#", ";", "["}

\* a value the reader returns as it is written
PlainValue(v) == Strip(v) = v /\ Positions(v, {"%", NL, CR}) = {}

\* a section name the reader returns as a section
PlainSection(n) == n # <<>> /\ ~HasLineBreak(n) /\ n # DEFAULTSECT

PlainSections(dict) == \A i \in 1..Len(dict) : PlainSection(dict[i].name)

\* the documents that do survive the round trip
PlainDocument(dict) ==
    /\ StatedDocument(dict)
    /\ PlainSections(dict)
    /\ AllOptions(dict, LAMBDA n, v : PlainName(n) /\ PlainValue(v))

\* read_cfg has returned after create_cfg wrote the file
ReadBack == cfgWritten /\ cfgReads # <<>>

\* every read_cfg since the write returned exactly the dictionary written
ReturnsWritten ==
    \A i \in 1..Len(cfgReads) :
        cfgReads[i].raised = "none" /\ cfgReads[i].doc = AsMap(cfg_dict)

\* C1 as stated: every document with lowercase option names and values free
\* of '=' and newline is read back as it was written.
C1_RoundTripAsStated == (ReadBack /\ StatedDocument(cfg_dict)) => ReturnsWritten

\* C1, amended: a document is read back as written when, besides, no section
\* is named DEFAULT or has an empty name or a line break in it, every option
\* name is non-empty, has no surrounding whitespace, no '=', ':' or line
\* break and does not start with '#', ';' or '[', and every value has no
\* surrounding whitespace, no '%' and no line break ('\n' or '\r').
C1_RoundTrip == (ReadBack /\ PlainDocument(cfg_dict)) => ReturnsWritten

\* C1 witness: a two-section, two-option plain document was read back
C1_Witness ==
    /\ ReadBack
    /\ PlainDocument(cfg_dict)
    /\ Len(cfg_dict) = 2
    /\ CountOptions(cfg_dict) = 2

\* C7: read_cfg of a missing file returns the empty document without
\* raising; read_cfg leaves the file as it was, and successive reads of the
\* unmodified file return equal results.
C7_ReadMissingAndIdempotent ==
    /\ \A i \in 1..Len(cfgReads) :
          /\ cfgReads[i].missing => (cfgReads[i].raised = "none" /\ cfgReads[i].doc = EmptyMap)
          /\ cfgReads[i] = cfgReads[1]
    /\ IF cfgWritten
       THEN cfgFile = [exists |-> TRUE, data |-> Serialize(cfg_dict)]
       ELSE cfgFile \in PreexistingFiles

\* C7 witness: a missing file has been read twice
C7_Witness == ~cfgFile.exists /\ Len(cfgReads) = 2

\* documents whose option lines are read as options with the name written,
\* whatever the case of the name
OptionLinesDocument(dict) ==
    /\ PlainSections(dict)
    /\ AllOptions(dict, LAMBDA n, v : PlainName(n) /\ PlainValue(v))

\* no two option names of a section differ only in case
NoCaseClash(dict) ==
    \A i \in 1..Len(dict) : \A j, k \in 1..Len(dict[i].options) :
        Lower(dict[i].options[j].name) = Lower(dict[i].options[k].name) => j = k

\* every option written is returned under key Key(name) with its value
ReturnedUnder(Key(_)) ==
    \A r \in 1..Len(cfgReads) :
        /\ cfgReads[r].raised = "none"
        /\ \A i \in 1..Len(cfg_dict) : \A j \in 1..Len(cfg_dict[i].options) :
              LET sec == cfg_dict[i].name
                  opt == cfg_dict[i].options[j]
              IN  /\ sec \in DOMAIN cfgReads[r].doc
                  /\ Key(opt.name) \in DOMAIN cfgReads[r].doc[sec]
                  /\ cfgReads[r].doc[sec][Key(opt.name)] = opt.value

\* C8 as stated: an option line name=value is returned under the key that
\* is the name as stored, character for character.
C8_KeyAsStored ==
    (ReadBack /\ OptionLinesDocument(cfg_dict) /\ NoCaseClash(cfg_dict))
        => ReturnedUnder(LAMBDA n : n)

\* C8, amended: an option line name=value (name non-empty, without
\* surrounding whitespace, '=', ':' or line break, not starting with '#',
\* ';' or '['; value without surrounding whitespace, '%' or line break;
\* section not DEFAULT) is returned under the key that is the stored name
\* in lower case, so character for character only when the stored name is
\* lowercase already; when two names of a section differ only in case the
\* read raises DuplicateOptionError.
C8_KeyLowercased ==
    (ReadBack /\ OptionLinesDocument(cfg_dict))
        => IF NoCaseClash(cfg_dict)
           THEN ReturnedUnder(Lower)
           ELSE \A r \in 1..Len(cfgReads) : cfgReads[r].raised = "DuplicateOptionError"

\* C8 witness: an option with an uppercase name was written and read back
C8_Witness ==
    /\ ReadBack
    /\ OptionLinesDocument(cfg_dict)
    /\ NoCaseClash(cfg_dict)
    /\ ~AllOptions(cfg_dict, LAMBDA n, v : Lower(n) = n)

----------------------------------------------------------------------------
(* check_hash.  SHA-256 is modelled by a digest without collisions: the    *)
(* file's bytes read as the digits of a number.                            *)

MaxFiles == 3

HashPaths == {"f1", "f2", "f3"}

\* what a path may hold: an unreadable or missing file, or bytes
FileStates ==
    {[readable |-> FALSE, data |-> <<>>]} \cup
    {[readable |-> TRUE, data |-> d] : d \in {<<>>, <<7>>, <<7, 8>>}}

RECURSIVE Sha256(_)
\* hasher.update(f.read()); hasher.digest()
Sha256(data) ==
    IF data = <<>> THEN 0
    ELSE Sha256(SubSeq(data, 1, Len(data) - 1)) * 257 + data[Len(data)] + 1

HexChars == <<"0", "1", "2", "3", "4", "5", "6", "7", "8", "9",
              "a", "b", "c", "d", "e", "f">>

\* the digests of the model are below 16^6: the higher digits are zeros
HexDigit(n, k) == IF k < 6 THEN HexChars[((n \div (16 ^ k)) % 16) + 1] ELSE "0"

\* hasher.hexdigest(): 64 lowercase hexadecimal characters
HexDigest(data) == [i \in 1..64 |-> HexDigit(Sha256(data), 64 - i)]

\* the result of a call: a boolean, a string, or an exception raised
ReturnBool(b) == [kind |-> "bool", bool |-> b, str |-> <<>>, exc |-> "none"]
ReturnStr(t) == [kind |-> "str", bool |-> FALSE, str |-> t, exc |-> "none"]
Raise(e) == [kind |-> "raise", bool |-> FALSE, str |-> <<>>, exc |-> e]

\* the local variable hash before its first assignment
Unbound == [bound |-> FALSE, digest |-> -1]

\* a comparison that reads the builtin hash instead of raising: it is false
HashIsBuiltin(hash) == FALSE

\* reading the local hash before it is assigned raises UnboundLocalError
RaisesUnboundLocalError(hash) == ~hash.bound

RECURSIVE CompareLoop(_, _, _, _)
\* the for loop of the multi-file branch, from the i-th file on
CompareLoop(fs, files, i, hash) ==
    IF i > Len(files) THEN ReturnBool(TRUE)
    ELSE IF ~fs[files[i]].readable THEN Raise("OSError")
    ELSE LET digest == Sha256(fs[files[i]].data)
         IN  IF RaisesUnboundLocalError(hash)
             THEN CompareLoop(fs, files, i + 1, [bound |-> TRUE, digest |-> digest])
             ELSE IF hash.digest = digest
             THEN CompareLoop(fs, files, i + 1, hash)
             ELSE ReturnBool(FALSE)

\* a multi-file branch that reads every file before it compares any
CompareAfterReadingAll(fs, files) ==
    IF \E i \in 1..Len(files) : ~fs[files[i]].readable THEN Raise("OSError")
    ELSE ReturnBool(\A i \in 1..Len(files) :
                       Sha256(fs[files[i]].data) = Sha256(fs[files[1]].data))

\* the branch taken when len(files) > 1
CompareFiles(fs, files) == CompareLoop(fs, files, 1, Unbound)

\* the branch taken otherwise: files[0] is hashed
SingleFile(fs, files) ==
    IF Len(files) = 0 THEN Raise("IndexError")
    ELSE IF ~fs[files[1]].readable THEN Raise("OSError")
    ELSE ReturnStr(HexDigest(fs[files[1]].data))

NoResult == [kind |-> "none", bool |-> FALSE, str |-> <<>>, exc |-> "none"]

\* no check_hash call is made
HashIdle ==
    /\ hashFiles = [p \in HashPaths |-> [readable |-> FALSE, data |-> <<>>]]
    /\ hashCall = [files |-> <<>>, result |-> NoResult]

HashInit ==
    /\ hashFiles \in [HashPaths -> FileStates]
    /\ hashCall = [files |-> <<>>, result |-> NoResult]

\* check_hash(*files)
check_hash(files) ==
    /\ hashCall' = [files |-> files,
                    result |-> IF Len(files) > 1 THEN CompareFiles(hashFiles, files)
                               ELSE SingleFile(hashFiles, files)]
    /\ UNCHANGED <<hashFiles, cfgVars, bkVars>>

HashNext ==
    \E files \in UNION {[1..n -> HashPaths] : n \in 0..MaxFiles} : check_hash(files)

\* Properties of check_hash.

\* the digest of the i-th file of the last call
DigestOf(i) == Sha256(hashFiles[hashCall.files[i]].data)

MultiFileCall == hashCall.result.kind # "none" /\ Len(hashCall.files) > 1

AllReadable == \A i \in 1..Len(hashCall.files) : hashFiles[hashCall.files[i]].readable

\* C2: a multi-file call on readable files returns true exactly when every
\* file's digest equals the first file's digest, and false otherwise.
C2_TrueIffAllDigestsEqual ==
    (MultiFileCall /\ AllReadable)
        => hashCall.result = ReturnBool(\A i \in 1..Len(hashCall.files) : DigestOf(i) = DigestOf(1))

\* C2 witness: three readable files, only the last differing, gave false
C2_Witness ==
    /\ MultiFileCall /\ AllReadable
    /\ Len(hashCall.files) = 3
    /\ DigestOf(2) = DigestOf(1)
    /\ DigestOf(3) # DigestOf(1)
    /\ hashCall.result = ReturnBool(FALSE)

\* C5 as stated: any unreadable file among the arguments makes the call
\* raise, whatever its position and the other files' contents.
C5_AnyUnreadableRaises ==
    (MultiFileCall /\ ~AllReadable) => hashCall.result.kind = "raise"

\* the i-th file is reached by the loop: no earlier file differs from the first
Reached(i) ==
    \A j \in 1..(i - 1) :
        hashFiles[hashCall.files[j]].readable /\ DigestOf(j) = DigestOf(1)

\* C5, amended: a multi-file call raises the file-access error, and returns
\* no boolean, exactly when an unreadable file is reached before any file
\* whose digest differs from the first file's; when a readable file with a
\* differing digest comes before every unreadable file, the call returns
\* false and the unreadable file is never opened.
C5_UnreadableRaisesUnlessMismatchFirst ==
    MultiFileCall =>
        IF \E i \in 1..Len(hashCall.files) :
              ~hashFiles[hashCall.files[i]].readable /\ Reached(i)
        THEN hashCall.result = Raise("OSError")
        ELSE hashCall.result.kind = "bool"
             /\ (~AllReadable => hashCall.result = ReturnBool(FALSE))

\* C5 witness: an unreadable third file was reached and the call raised
C5_Witness ==
    /\ MultiFileCall
    /\ Len(hashCall.files) = 3
    /\ hashFiles[hashCall.files[1]].readable
    /\ hashFiles[hashCall.files[2]].readable
    /\ ~hashFiles[hashCall.files[3]].readable
    /\ hashCall.result = Raise("OSError")

----------------------------------------------------------------------------
(* backup.  The destination directory is the one output_path names; the    *)
(* current directory when output_path is empty.  A backup name with a      *)
(* path separator in it names a file in a subdirectory, which is missing.  *)

Digits == <<"0", "1", "2", "3", "4", "5", "6", "7", "8", "9">>

\* a number as decimal digits, zero-padded to width
RECURSIVE ZeroPadded(_, _)
ZeroPadded(n, width) ==
    IF width = 0 THEN <<>>
    ELSE ZeroPadded(n \div 10, width - 1) \o <<Digits[(n % 10) + 1]>>

\* datetime.now().strftime("%Y-%m-%d %Hh%M")
Strftime(now) ==
    ZeroPadded(now.year, 4) \o <<"-">> \o ZeroPadded(now.month, 2) \o <<"-">>
      \o ZeroPadded(now.day, 2) \o <<" ">> \o ZeroPadded(now.hour, 2) \o <<"h">>
      \o ZeroPadded(now.minute, 2)

\* file[file.index('.'):]: the text from the first '.' on
ExtensionFromFirstDot(file) ==
    IF Positions(file, {"."}) = {} THEN <<>>
    ELSE SubSeq(file, Min(Positions(file, {"."})), Len(file))

\* file[file.rindex('.'):], and '' when rindex raises ValueError
Extension(file) ==
    IF Positions(file, {"."}) = {} THEN <<>>
    ELSE SubSeq(file, Max(Positions(file, {"."})), Len(file))

\* the backup name the call uses
BackupName(args) ==
    IF args.backup_name = <<>>
    THEN Strftime(args.now) \o Extension(args.file)
    ELSE args.backup_name

\* the condition of line 139: the last character differs from '\' or from '/'
NeedsSeparator(output_path) ==
    Len(output_path) > 0 /\ (output_path[Len(output_path)] # "\\"
                             \/ output_path[Len(output_path)] # "/")

\* output_path after lines 139-141
NormalizedOutputPath(output_path) ==
    IF NeedsSeparator(output_path) THEN output_path \o <<"/">> ELSE output_path

HasSeparator(name) == Positions(name, {"/"}) # {}

\* whether the directory the destination file goes into exists
DestParentExists(fs, loc) ==
    (loc.output_path = <<>> \/ fs.dirExists) /\ ~HasSeparator(loc.backup_name)

\* how shutil.copy(file, output_path + backup_name) ends
CopyOutcome(fs, loc) ==
    IF fs.src.state = "missing" THEN "FileNotFoundError"
    ELSE IF fs.src.state = "unreadable" THEN "PermissionError"
    ELSE IF ~DestParentExists(fs, loc) THEN "FileNotFoundError"
    ELSE IF loc.backup_name \in DOMAIN fs.dest /\ fs.dest[loc.backup_name].readonly
    THEN "PermissionError"
    ELSE "ok"

\* the file system after shutil.copy: content and permission bits copied
AfterCopy(fs, loc) ==
    IF CopyOutcome(fs, loc) = "ok"
    THEN [fs EXCEPT !.dest = Put(@, loc.backup_name,
                                 [data |-> fs.src.data, readonly |-> fs.src.readonly])]
    ELSE fs

\* how os.makedirs(output_path) ends
MakedirsOutcome(fs, loc) ==
    IF loc.output_path = <<>> THEN "FileNotFoundError"
    ELSE IF fs.dirExists THEN "FileExistsError"
    ELSE fs.makedirsEnds

SourcePaths ==
    {<<"a", ".", "c", "s", "v">>, <<"a", ".", "t", "a", "r", ".", "g", "z">>,
     <<"R", "E", "A", "D", "M", "E">>, <<".", "/", "R", "E", "A", "D", "M", "E">>}

OutputPaths == {<<>>, <<"o", "u", "t">>, <<"o", "u", "t", "/">>, <<"o", "u", "t", "\\">>}

BackupNames == {<<>>, <<"c", "o", "p", "y", ".", "b", "a", "k">>}

Clocks ==
    {[year |-> 2024, month |-> 1, day |-> 5, hour |-> 9, minute |-> 7],
     [year |-> 2026, month |-> 11, day |-> 30, hour |-> 23, minute |-> 59]}

\* the source file: readable (writable or read-only), unreadable or missing
SourceStates ==
    {[state |-> "readable", readonly |-> FALSE, data |-> <<7, 8>>],
     [state |-> "readable", readonly |-> TRUE, data |-> <<7, 8>>],
     [state |-> "unreadable", readonly |-> FALSE, data |-> <<7, 8>>],
     [state |-> "missing", readonly |-> FALSE, data |-> <<>>]}

\* the destination directory: there, or missing with the way creating it ends
DirStates ==
    {[dirExists |-> TRUE, makedirsEnds |-> "ok"]} \cup
    {[dirExists |-> FALSE, makedirsEnds |-> m] : m \in {"ok", "PermissionError", "OSError"}}

BackupStart ==
    [pc |-> "call", backup_name |-> <<>>, output_path |-> <<>>,
     copies |-> 0, makedirs |-> 0, first |-> "none", created |-> "none",
     printed |-> FALSE, pending |-> "none", raised |-> "none"]

\* the file system backup starts in
StartFs(env) ==
    [src |-> env.src, dirExists |-> env.dir.dirExists,
     makedirsEnds |-> env.dir.makedirsEnds, dest |-> EmptyMap]

\* no backup call is made
BackupIdle ==
    /\ bkArgs = [file |-> <<>>, output_path |-> <<>>, backup_name |-> <<>>,
                 now |-> [year |-> 2024, month |-> 1, day |-> 5, hour |-> 9, minute |-> 7]]
    /\ bkEnv = [src |-> [state |-> "missing", readonly |-> FALSE, data |-> <<>>],
                dir |-> [dirExists |-> TRUE, makedirsEnds |-> "ok"]]
    /\ bkFs = StartFs(bkEnv)
    /\ bk = [BackupStart EXCEPT !.pc = "idle"]

BackupInit ==
    /\ bkArgs \in [file : SourcePaths, output_path : OutputPaths,
                   backup_name : BackupNames, now : Clocks]
    /\ bkEnv \in [src : SourceStates, dir : DirStates]
    /\ bkFs = StartFs(bkEnv)
    /\ bk = BackupStart

\* lines 129-141: the backup name and the destination prefix
backup ==
    /\ bk.pc = "call"
    /\ bk' = [bk EXCEPT !.pc = "try",
                        !.backup_name = BackupName(bkArgs),
                        !.output_path = NormalizedOutputPath(bkArgs.output_path)]
    /\ UNCHANGED <<bkArgs, bkEnv, bkFs, cfgVars, hashVars>>

\* lines 143-145: the first copy; FileNotFoundError is caught, any other
\* exception stays pending while the finally clause runs
FirstCopy ==
    /\ bk.pc = "try"
    /\ LET r == CopyOutcome(bkFs, bk)
       IN  bk' = [bk EXCEPT !.copies = @ + 1,
                            !.first = r,
                            !.pc = IF r = "FileNotFoundError" THEN "except" ELSE "finally",
                            !.pending = IF r \in {"ok", "FileNotFoundError"} THEN "none" ELSE r]
    /\ bkFs' = AfterCopy(bkFs, bk)
    /\ UNCHANGED <<bkArgs, bkEnv, cfgVars, hashVars>>

\* the handler that ends the call once the message is printed
MakeDirsAndStop ==
    /\ bk.pc = "except"
    /\ LET m == MakedirsOutcome(bkFs, bk)
       IN  /\ bk' = [bk EXCEPT !.makedirs = @ + 1,
                               !.created = m,
                               !.printed = (m = "PermissionError"),
                               !.pc = IF m = "PermissionError" THEN "done" ELSE "finally",
                               !.pending = IF m \in {"ok", "PermissionError"} THEN "none" ELSE m]
           /\ bkFs' = IF m = "ok" THEN [bkFs EXCEPT !.dirExists = TRUE] ELSE bkFs
    /\ UNCHANGED <<bkArgs, bkEnv, cfgVars, hashVars>>

\* lines 146-153: the directory is created; PermissionError is caught and the
\* message printed; any other exception stays pending
MakeDirs ==
    /\ bk.pc = "except"
    /\ LET m == MakedirsOutcome(bkFs, bk)
       IN  /\ bk' = [bk EXCEPT !.makedirs = @ + 1,
                               !.created = m,
                               !.printed = (m = "PermissionError"),
                               !.pc = "finally",
                               !.pending = IF m \in {"ok", "PermissionError"} THEN "none" ELSE m]
           /\ bkFs' = IF m = "ok" THEN [bkFs EXCEPT !.dirExists = TRUE] ELSE bkFs
    /\ UNCHANGED <<bkArgs, bkEnv, cfgVars, hashVars>>

\* lines 154-155: the copy of the finally clause; its exception, if any,
\* is the one the caller sees, else the pending one
FinalCopy ==
    /\ bk.pc = "finally"
    /\ LET r == CopyOutcome(bkFs, bk)
       IN  bk' = [bk EXCEPT !.copies = @ + 1,
                            !.pc = "done",
                            !.pending = "none",
                            !.raised = IF r = "ok" THEN bk.pending ELSE r]
    /\ bkFs' = AfterCopy(bkFs, bk)
    /\ UNCHANGED <<bkArgs, bkEnv, cfgVars, hashVars>>

BackupNext ==
    \/ backup
    \/ FirstCopy
    \/ MakeDirs
    \/ FinalCopy

\* Properties of backup.

Called == bk.pc \notin {"idle", "call"}

\* the call was made with a readable source and a destination directory
\* that was missing and could be created
MissingCreatableDirectory ==
    /\ bkEnv.src.state = "readable"
    /\ bkArgs.output_path # <<>>
    /\ ~bkEnv.dir.dirExists
    /\ bkEnv.dir.makedirsEnds = "ok"

\* C3: with a readable source and a missing destination directory that can
\* be created, the call ends without an error, the directory exists and the
\* backup file is in it with the source's content.
C3_CreatesDirectoryAndBackup ==
    (bk.pc = "done" /\ MissingCreatableDirectory)
        => /\ bk.raised = "none"
           /\ bkFs.dirExists
           /\ bk.backup_name \in DOMAIN bkFs.dest
           /\ bkFs.dest[bk.backup_name].data = bkEnv.src.data

\* C4: when the first copy fails for the missing directory and creating it
\* ends in PermissionError, the message is printed, no further copy is
\* attempted and no exception reaches the caller.
C4_StopsAfterPermissionError ==
    (/\ bk.pc = "done"
     /\ bkEnv.src.state = "readable"
     /\ bk.first = "FileNotFoundError"
     /\ bk.created = "PermissionError")
        => bk.printed /\ bk.copies = 1 /\ bk.raised = "none"

\* C6: a separator is appended only to a non-empty output_path that does not
\* end in '/' or '\' already, so the prefix never ends in two separators;
\* an empty output_path stays empty.
C6_SeparatorAppendedOnlyIfMissing ==
    Called =>
        bk.output_path =
            IF bkArgs.output_path # <<>>
               /\ bkArgs.output_path[Len(bkArgs.output_path)] \notin {"/", "\\"}
            THEN bkArgs.output_path \o <<"/">>
            ELSE bkArgs.output_path

\* the number a run of decimal digits writes
RECURSIVE DigitsValue(_)
DigitsValue(ds) ==
    IF ds = <<>> THEN 0
    ELSE DigitsValue(SubSeq(ds, 1, Len(ds) - 1)) * 10
           + (CHOOSE d \in 0..9 : Digits[d + 1] = ds[Len(ds)])

AllDigits(ds) == \A i \in 1..Len(ds) : \E d \in 1..10 : Digits[d] = ds[i]

\* text is the time now written as 'YYYY-MM-DD HHhMM'
IsTimestamp(text, now) ==
    /\ Len(text) = 16
    /\ text[5] = "-" /\ text[8] = "-" /\ text[11] = " " /\ text[14] = "h"
    /\ AllDigits(SubSeq(text, 1, 4) \o SubSeq(text, 6, 7) \o SubSeq(text, 9, 10)
                   \o SubSeq(text, 12, 13) \o SubSeq(text, 15, 16))
    /\ DigitsValue(SubSeq(text, 1, 4)) = now.year
    /\ DigitsValue(SubSeq(text, 6, 7)) = now.month
    /\ DigitsValue(SubSeq(text, 9, 10)) = now.day
    /\ DigitsValue(SubSeq(text, 12, 13)) = now.hour
    /\ DigitsValue(SubSeq(text, 15, 16)) = now.minute

\* ext is what file holds from its last '.' on, or is empty without a '.'
IsLastExtension(ext, file) ==
    IF \A i \in 1..Len(file) : file[i] # "."
    THEN ext = <<>>
    ELSE /\ Len(ext) >= 1 /\ Len(ext) <= Len(file)
         /\ ext[1] = "."
         /\ \A i \in 2..Len(ext) : ext[i] # "."
         /\ \A i \in 1..Len(ext) : ext[i] = file[Len(file) - Len(ext) + i]

\* C9: without a backup name the name is the local time as
\* 'YYYY-MM-DD HHhMM' followed by the source path's text from its last '.'
\* on (nothing when it has no '.'); a backup name given is used unchanged.
C9_DefaultBackupName ==
    Called =>
        IF bkArgs.backup_name = <<>>
        THEN /\ Len(bk.backup_name) >= 16
             /\ IsTimestamp(SubSeq(bk.backup_name, 1, 16), bkArgs.now)
             /\ IsLastExtension(SubSeq(bk.backup_name, 17, Len(bk.backup_name)),
                                bkArgs.file)
        ELSE bk.backup_name = bkArgs.backup_name

\* C9 witness: a name was derived for a source path with two dots
C9_Witness ==
    /\ Called
    /\ bkArgs.backup_name = <<>>
    /\ Cardinality(Positions(bkArgs.file, {"."})) = 2
    /\ Len(bk.backup_name) = 19

\* C10: the call never ends before the copy of the finally clause: at its
\* end two copies have been attempted, whatever the first copy and the
\* directory creation did; never more than two copies nor more than one
\* directory creation are attempted.
C10_FinalCopyAlwaysAttempted ==
    /\ bk.copies <= 2
    /\ bk.makedirs <= 1
    /\ bk.pc = "done" => bk.copies = 2
    /\ bk.pc = "finally" => bk.copies = 1

\* C10 witness: the first copy succeeded and a second one was made
C10_Witness ==
    /\ bk.pc = "done"
    /\ bk.first = "ok"
    /\ bk.copies = 2
    /\ bk.makedirs = 0

----------------------------------------------------------------------------
(* The specifications: each function is called on its own.                 *)

InitCfg == CfgInit /\ HashIdle /\ BackupIdle
SpecCfg == InitCfg /\ [][CfgNext]_vars

InitHash == HashInit /\ CfgIdle /\ BackupIdle
SpecHash == InitHash /\ [][HashNext]_vars

InitBackup == BackupInit /\ CfgIdle /\ HashIdle
SpecBackup == InitBackup /\ [][BackupNext]_vars

============================================================================
